---- MODULE Spec2Model ----
(***************************************************************************)
(* Request lifecycle and health aggregation of the FastAPI service         *)
(* skeleton: the ASGI middleware chain built by create_app, the            *)
(* correlation-id context variable, the health probes and the example      *)
(* routes.  Each request is an asyncio task; an action is one run of a     *)
(* task between two suspension points of the event loop.                   *)
(***************************************************************************)
EXTENDS Integers, Sequences, FiniteSets, TLC

\* Number of requests the server receives (each handled by its own task).
NumReqs == 2
Reqs == 1..NumReqs

(***************************************************************************)
(* Values.  Strings that are compared with generated identifiers are       *)
(* tagged pairs, so that a uuid never equals a client string.              *)
(***************************************************************************)
NoneVal == <<"None", 0>>          \* Python None: header absent
EmptyStr == <<"str", 0>>          \* ""
ClientId == <<"str", 1>>          \* a non-empty id supplied by the client
UnknownStr == <<"str", 2>>        \* the literal "unknown"
uuid4(r) == <<"uuid4", r>>        \* str(uuid4()) drawn while handling r
Falsy(v) == v \in {NoneVal, EmptyStr}

\* The inbound X-Correlation-ID header of the requests drawn by the model.
HeaderValues == {NoneVal, ClientId}

HEALTHY == "healthy"
DEGRADED == "degraded"
UNHEALTHY == "unhealthy"

EmptyDict == <<>>
DictSet(d, k, v) == [x \in (DOMAIN d) \cup {k} |-> IF x = k THEN v ELSE d[x]]

\* The requests drawn by the model: method, path segments.
ExamplePath(id) == <<"api", "v1", "examples", id>>
Inputs ==
    { [method |-> "GET", path |-> p] :
        p \in {<<"health">>, <<"health", "live">>, <<"health", "ready">>,
               <<"health", "startup">>, <<"missing">>} }
    \cup { [method |-> m, path |-> ExamplePath(id)] :
            m \in {"GET", "PATCH", "DELETE"}, id \in {"e1"} }
    \cup { [method |-> "OPTIONS", path |-> <<"api", "v1", "examples">>] }

\* JSON payloads of POST /api/v1/examples: a field is a string, null or absent.
TestName == <<"str", 3>>
TestDescription == <<"str", 4>>
NoPayload == [name |-> NoneVal, description |-> NoneVal, is_active |-> "absent"]
Payloads ==
    { [name |-> TestName, description |-> TestDescription, is_active |-> "false"],
      [name |-> TestName, description |-> NoneVal, is_active |-> "absent"],
      [name |-> EmptyStr, description |-> NoneVal, is_active |-> "absent"] }

\* The requests of a client of the examples API.
ExampleInputs ==
    { [method |-> "POST", path |-> <<"api", "v1", "examples">>, body |-> b] :
        b \in Payloads }
    \cup { [method |-> "GET", path |-> ExamplePath("e1"), body |-> NoPayload] }

\* What the database does to the session of a request: nothing, or flush,
\* or commit raises (commit while the response is still unsent, or after it
\* was sent, as the framework version runs the dependency's exit code).
Faults == {"none", "flush", "commit", "commit_after_send"}

\* str.startswith("/health") on the request path
StartsWithHealth(path) == Len(path) >= 1 /\ path[1] = "health"

(***************************************************************************)
(* Responses.                                                              *)
(***************************************************************************)
SecurityHeaders ==
    << "x-content-type-options", "x-frame-options", "x-xss-protection",
       "strict-transport-security", "cache-control", "content-security-policy" >>
HEADER_NAME == "X-Correlation-ID"

\* The fields of an ExampleResponse body (none set: another body).
NoBody ==
    [id |-> "none", name |-> NoneVal, description |-> NoneVal,
     is_active |-> "none", created_at |-> "none"]

NoResp ==
    [status_code |-> 0, headers |-> <<>>, xcid |-> NoneVal, tag |-> "none",
     status |-> "none", components |-> "absent", map |-> EmptyDict,
     error |-> "none", correlation_id |-> NoneVal, body |-> NoBody]

\* A response of the framework or of a route: no headers of interest yet.
MkResp(code, tag) == [NoResp EXCEPT !.status_code = code, !.tag = tag]

HeaderNames(resp) == {resp.headers[i] : i \in 1..Len(resp.headers)}

\* (a response that serialises an empty components dict as a map)
HealthResponseKeepEmpty(code, status, components) ==
    [MkResp(code, "HealthResponse") EXCEPT
        !.status = status, !.components = "map", !.map = components]

\* HealthResponse(status=..., components=components if components else None)
\* serialised by response_model
HealthResponse(code, status, components) ==
    [MkResp(code, "HealthResponse") EXCEPT
        !.status = status,
        !.components = IF components = EmptyDict THEN "null" ELSE "map",
        !.map = components]

ComponentHealth(status, latency, message) ==
    [status |-> status, latency_ms |-> latency, message |-> message]

(***************************************************************************)
(* The application built by create_app.                                    *)
(***************************************************************************)
\* (an add_middleware that keeps the classes in the order of the calls)
AddLast(stack, cls) == stack \o <<cls>>

\* Starlette's add_middleware: the class is inserted at the head of
\* user_middleware, so the class added last wraps all the others.
add_middleware(stack, cls) == <<cls>> \o stack

user_middleware ==
    add_middleware(
      add_middleware(
        add_middleware(
          add_middleware(
            add_middleware(<<>>, "SecurityHeadersMiddleware"),
            "CORSMiddleware"),
          "RequestLoggingMiddleware"),
        "CorrelationIdMiddleware"),
      "TraceMiddleware")

\* FastAPI(...) wraps the user middleware between ServerErrorMiddleware
\* (outermost) and ExceptionMiddleware (innermost, around the router).
Stack == <<"ServerErrorMiddleware">> \o user_middleware \o <<"ExceptionMiddleware">>

\* Middleware classes deriving from BaseHTTPMiddleware: call_next runs the
\* inner application in a child task with a copy of the caller's context.
IsBaseHTTPMiddleware(cls) ==
    cls \in {"CorrelationIdMiddleware", "RequestLoggingMiddleware"}

\* Exception classes that create_app registers a handler for: those that
\* FastAPI installs itself.  create_app never calls
\* configure_exception_handlers, so AppException and Exception have none.
exception_handlers == {"HTTPException", "RequestValidationError"}

\* Base classes of the exceptions raised in the model (method resolution order).
Mro(exc) ==
    IF exc = "NotFoundError" THEN <<"NotFoundError", "AppException", "Exception">>
    ELSE IF exc = "none" THEN <<>>
    ELSE <<exc, "Exception">>

VARIABLES
    started,          \* lifespan startup has completed
    dbConfigured,     \* template: values.database != "none" and values.orm != "none"
    cacheConfigured,  \* template: values.cache == "elasticache-redis"
    redis_pool,       \* src.db.redis.redis_pool: "None" or "pool"
    storage,          \* ids of the stored examples
    ctx,              \* per request: the correlation_id_ctx value in each nested task context
    req               \* per request: the local state of its task

vars == <<started, dbConfigured, cacheConfigured, redis_pool, storage, ctx, req>>

IdleReq ==
    [pc |-> "idle", depth |-> 0, header |-> NoneVal, method |-> "", path |-> <<>>,
     cid |-> NoneVal, trail |-> <<>>, exc |-> "none",
     resp |-> NoResp, log |-> <<>>, observed |-> {}, checked |-> {},
     lookup |-> "none", status_code |-> 0, overall_status |-> "none", components |-> EmptyDict,
     calls |-> <<>>, drawn |-> 0,
     body |-> NoPayload, fault |-> "none", session |-> <<>>, probe |-> EmptyDict]

(***************************************************************************)
(* correlation_id_ctx: a ContextVar.  ctx[r] lists the value held in the   *)
(* context of the request's task and of each child task call_next has      *)
(* spawned for it; the running code reads and writes the last one.         *)
(***************************************************************************)
CtxGet(c, r) == c[r][Len(c[r])]
\* (one slot shared by all the tasks instead of a context variable)
CtxSetShared(c, r, v) == [q \in Reqs |-> [i \in 1..Len(c[q]) |-> v]]
\* ContextVar.set in the running task's context
CtxSet(c, r, v) == [c EXCEPT ![r] = [@ EXCEPT ![Len(@)] = v]]
\* A new task runs in a copy of the context of the code that created it.
CtxFork(c, r) == [c EXCEPT ![r] = Append(@, @[Len(@)])]
CtxJoin(c, r) == [c EXCEPT ![r] = SubSeq(@, 1, Len(@) - 1)]

\* add_context: the correlation id a log record is stamped with.
add_context(w) ==
    IF Falsy(CtxGet(w.ctx, w.r)) THEN UnknownStr ELSE CtxGet(w.ctx, w.r)

\* logger.info / warning / exception: one record, stamped by add_context.
LogEvent(w, event) ==
    [w EXCEPT !.t.log = Append(@, [event |-> event, correlation_id |-> add_context(w)]),
              !.t.observed = @ \cup {CtxGet(w.ctx, w.r)}]

\* (a get_correlation_id that returns a generated id without storing it)
GetWithoutStore(w) ==
    LET cid == CtxGet(w.ctx, w.r)
        new == uuid4(w.r + NumReqs * (w.t.drawn + 1))
    IN  IF Falsy(cid)
        THEN [w EXCEPT !.t.drawn = @ + 1,
                       !.t.calls = Append(@, [op |-> "get", value |-> new])]
        ELSE [w EXCEPT !.t.calls = Append(@, [op |-> "get", value |-> cid])]

\* get_correlation_id: the id of the running context, generated and stored
\* when the context holds none.  t.calls records the value returned; the
\* n-th uuid drawn in a context differs from every other uuid.
get_correlation_id(w) ==
    LET cid == CtxGet(w.ctx, w.r)
        new == uuid4(w.r + NumReqs * (w.t.drawn + 1))
    IN  IF Falsy(cid)
        THEN [w EXCEPT !.ctx = CtxSet(w.ctx, w.r, new),
                       !.t.drawn = @ + 1,
                       !.t.calls = Append(@, [op |-> "get", value |-> new])]
        ELSE [w EXCEPT !.t.calls = Append(@, [op |-> "get", value |-> cid])]

\* The model reads the request line when the code first looks at it.
Bind(w, input) ==
    IF w.t.method = "" THEN [w EXCEPT !.t.method = input.method, !.t.path = input.path]
    ELSE w

(***************************************************************************)
(* Middleware: the code run before the inner application is called.        *)
(***************************************************************************)
\* (a dispatch that calls the inner application without storing the id)
CorrelationIdEnterNoSet(w) ==
    LET correlation_id == IF Falsy(w.t.header) THEN uuid4(w.r) ELSE w.t.header
    IN  [w EXCEPT !.t.cid = correlation_id, !.ctx = CtxFork(w.ctx, w.r)]

CorrelationIdEnter(w) ==
    LET correlation_id == IF Falsy(w.t.header) THEN uuid4(w.r) ELSE w.t.header
    IN  [w EXCEPT !.t.cid = correlation_id,
                  !.ctx = CtxFork(CtxSet(w.ctx, w.r, correlation_id), w.r)]

RequestLoggingEnter(w) == [w EXCEPT !.ctx = CtxFork(w.ctx, w.r)]

\* CORSMiddleware answers a preflight request itself.
CORSEnter(w) ==
    IF w.t.method = "OPTIONS"
    THEN [w EXCEPT !.t.resp =
            [MkResp(200, "plain") EXCEPT !.headers = <<"access-control-allow-origin">>]]
    ELSE w

Enter(cls, w0, input) ==
    LET w == [w0 EXCEPT !.t.trail = Append(@, cls)]
    IN  CASE cls = "CorrelationIdMiddleware" -> CorrelationIdEnter(w)
          [] cls = "RequestLoggingMiddleware" -> RequestLoggingEnter(w)
          [] cls = "CORSMiddleware" -> CORSEnter(Bind(w, input))
          [] OTHER -> w

(***************************************************************************)
(* Exception handlers.                                                     *)
(***************************************************************************)
ErrorResponse(code, error, cid) ==
    [MkResp(code, "ErrorResponse") EXCEPT !.error = error, !.correlation_id = cid]

\* exceptions.py: app_exception_handler (registered only by
\* configure_exception_handlers)
app_exception_handler(w) ==
    LET w1 == LogEvent(w, "app_exception")
    IN  [w1 EXCEPT !.t.observed = @ \cup {CtxGet(w.ctx, w.r)},
                   !.t.exc = "none",
                   !.t.resp = ErrorResponse(404, "NOT_FOUND", CtxGet(w.ctx, w.r))]

unhandled_exception_handler(w) ==
    LET w1 == LogEvent(w, "unhandled_exception")
    IN  [w1 EXCEPT !.t.observed = @ \cup {CtxGet(w.ctx, w.r)},
                   !.t.resp = ErrorResponse(500, "INTERNAL_ERROR", CtxGet(w.ctx, w.r))]

\* ExceptionMiddleware: the handler of the first class of the exception's
\* MRO that has one; Exception itself belongs to ServerErrorMiddleware.
HandlerClass(exc) ==
    LET mro == Mro(exc)
        hits == {i \in 1..Len(mro) :
                    mro[i] \in exception_handlers \ {"Exception"}}
    IN  IF hits = {} THEN "none"
        ELSE mro[CHOOSE i \in hits : \A j \in hits : i <= j]

ExceptionMiddlewareExit(w) ==
    LET h == HandlerClass(w.t.exc)
    IN  CASE h = "HTTPException" ->
                [w EXCEPT !.t.exc = "none", !.t.resp = MkResp(404, "detail")]
          [] h = "RequestValidationError" ->
                [w EXCEPT !.t.exc = "none", !.t.resp = MkResp(422, "detail")]
          [] h = "AppException" -> app_exception_handler(w)
          [] OTHER -> w

\* ServerErrorMiddleware: an exception that reaches it is answered with a
\* 500 response (the Exception handler's, or plain text) and re-raised.
ServerErrorMiddlewareExit(w) ==
    IF w.t.exc = "none" THEN w
    ELSE IF "Exception" \in exception_handlers THEN unhandled_exception_handler(w)
    ELSE [w EXCEPT !.t.resp = MkResp(500, "plain")]

(***************************************************************************)
(* Middleware: the code run on the outcome of the inner application, a     *)
(* response (t.exc = "none") or an exception passing through.              *)
(***************************************************************************)
\* send_wrapper: the six headers are appended to http.response.start.
SecurityHeadersExit(w) ==
    IF w.t.exc = "none"
    THEN [w EXCEPT !.t.resp.headers = @ \o SecurityHeaders]
    ELSE w

\* RequestLoggingMiddleware.dispatch after `await call_next(request)`
RequestLoggingExit(w0) ==
    LET w == [w0 EXCEPT !.ctx = CtxJoin(w0.ctx, w0.r)]
    IN  IF w.t.exc # "none" THEN w
        ELSE IF ~StartsWithHealth(w.t.path) THEN LogEvent(w, "http_request")
        ELSE w

\* response.headers[HEADER_NAME] = correlation_id
SetHeader(headers, name) ==
    IF \E i \in 1..Len(headers) : headers[i] = name THEN headers
    ELSE Append(headers, name)

\* CorrelationIdMiddleware.dispatch after `await call_next(request)`
CorrelationIdExit(w0) ==
    LET w == [w0 EXCEPT !.ctx = CtxJoin(w0.ctx, w0.r)]
    IN  IF w.t.exc # "none" THEN w
        ELSE [w EXCEPT !.t.resp.headers = SetHeader(@, HEADER_NAME),
                       !.t.resp.xcid = w.t.cid]

Exit(cls, w) ==
    CASE cls = "ExceptionMiddleware" -> ExceptionMiddlewareExit(w)
      [] cls = "SecurityHeadersMiddleware" -> SecurityHeadersExit(w)
      [] cls = "RequestLoggingMiddleware" -> RequestLoggingExit(w)
      [] cls = "CorrelationIdMiddleware" -> CorrelationIdExit(w)
      [] cls = "ServerErrorMiddleware" -> ServerErrorMiddlewareExit(w)
      [] OTHER -> w

\* The outcome travels outwards until it is handed to a BaseHTTPMiddleware
\* (whose dispatch resumes in a later run of the loop) or to the server.
RECURSIVE RunOut(_)
RunOut(w) ==
    IF w.t.depth = 0
    THEN [w EXCEPT !.t.pc = "done", !.ctx = [w.ctx EXCEPT ![w.r] = <<>>]]
    ELSE IF IsBaseHTTPMiddleware(Stack[w.t.depth])
    THEN [w EXCEPT !.t.pc = "resume"]
    ELSE RunOut([Exit(Stack[w.t.depth], w) EXCEPT !.t.depth = w.t.depth - 1])

(***************************************************************************)
(* Component checkers.                                                     *)
(***************************************************************************)
\* logger.error("database_health_check_failed" / "redis_health_check_failed")
\* in the except clause of a checker.
health_check_failed(w, event, component_health) ==
    IF component_health.message = "error" THEN LogEvent(w, event) ELSE w

\* (a check_db_health that lets the exception of the probe through)
CheckDbHealthRaises(probeOk) ==
    IF probeOk THEN ComponentHealth(HEALTHY, TRUE, "none")
    ELSE ComponentHealth("raised", FALSE, "error")

\* check_db_health: SELECT 1 succeeds or raises.
check_db_health(probeOk) ==
    IF probeOk THEN ComponentHealth(HEALTHY, TRUE, "none")
    ELSE ComponentHealth(UNHEALTHY, TRUE, "error")

\* check_redis_health: no pool, or PING succeeds or raises.
check_redis_health(pool, pingOk) ==
    IF pool = "None" THEN ComponentHealth(UNHEALTHY, FALSE, "Redis pool not initialized")
    ELSE IF pingOk THEN ComponentHealth(HEALTHY, TRUE, "none")
    ELSE ComponentHealth(UNHEALTHY, TRUE, "error")

(***************************************************************************)
(* Health probes.                                                          *)
(***************************************************************************)
\* health(): a plain dict
health(w) == [w EXCEPT !.t.resp = [MkResp(200, "dict") EXCEPT !.status = HEALTHY]]

\* (a liveness probe that runs the database check)
LivenessWithCheck(w) ==
    [w EXCEPT !.t.checked = {"database"},
              !.t.resp = HealthResponse(200, HEALTHY,
                            DictSet(EmptyDict, "database", check_db_health(TRUE)))]

\* liveness(): HealthResponse without components
liveness(w) == [w EXCEPT !.t.resp = HealthResponse(200, HEALTHY, EmptyDict)]

\* (a database block that records the result without folding it in)
ReadinessDbIgnored(w, db_health) ==
    [w EXCEPT !.t.checked = @ \cup {"database"},
              !.t.components = DictSet(@, "database", db_health)]

\* readiness(), the database block
ReadinessDb(w, db_health) ==
    [w EXCEPT !.t.checked = @ \cup {"database"},
              !.t.components = DictSet(@, "database", db_health),
              !.t.overall_status =
                  IF db_health.status # HEALTHY THEN UNHEALTHY ELSE @]

\* (a Redis block that takes the cache's own status as the overall one)
ReadinessRedisSevere(w, redis_health) ==
    [w EXCEPT !.t.checked = @ \cup {"redis"},
              !.t.components = DictSet(@, "redis", redis_health),
              !.t.overall_status =
                  IF redis_health.status # HEALTHY THEN redis_health.status ELSE @]

\* (a Redis block that takes the status of the last check as the overall one)
ReadinessRedisLast(w, redis_health) ==
    [w EXCEPT !.t.checked = @ \cup {"redis"},
              !.t.components = DictSet(@, "redis", redis_health),
              !.t.overall_status = redis_health.status]

\* (a Redis block that records the cache's result without folding it in)
ReadinessRedisIgnored(w, redis_health) ==
    [w EXCEPT !.t.checked = @ \cup {"redis"},
              !.t.components = DictSet(@, "redis", redis_health)]

\* readiness(), the Redis block
ReadinessRedis(w, redis_health) ==
    [w EXCEPT !.t.checked = @ \cup {"redis"},
              !.t.components = DictSet(@, "redis", redis_health),
              !.t.overall_status =
                  IF redis_health.status # HEALTHY
                  THEN (IF @ = HEALTHY THEN DEGRADED ELSE @)
                  ELSE @]

\* (a return that answers 503 for unhealthy only)
ReadinessReturnUnhealthyOnly(w) ==
    [w EXCEPT !.t.status_code = IF w.t.overall_status = UNHEALTHY THEN 503 ELSE @,
              !.t.resp = HealthResponse(200, w.t.overall_status, w.t.components)]

\* readiness(), from the status code to the return: a non-healthy overall
\* status is written on the Response object the caller passed in.
ReadinessReturn(w) ==
    [w EXCEPT !.t.status_code = IF w.t.overall_status # HEALTHY THEN 503 ELSE @,
              !.t.resp = HealthResponse(200, w.t.overall_status, w.t.components)]

\* (a startup probe that hands readiness a Response of its own making)
StartupOtherResponse(w) == [w EXCEPT !.t.status_code = 0]

\* startup(): `return await readiness(response)`.  The Response object that
\* readiness wrote on is the one injected into the startup route.
startup(w) == w

\* FastAPI's route wrapper: a status code set on the injected Response
\* replaces the route's default.
serialize_response(w) ==
    IF w.t.status_code # 0 THEN [w EXCEPT !.t.resp.status_code = w.t.status_code]
    ELSE w

\* readiness() up to its first await, or to its return when no component
\* is configured.
ReadinessBegin(w0) ==
    LET w == [w0 EXCEPT !.t.components = EmptyDict, !.t.overall_status = HEALTHY]
    IN  IF dbConfigured THEN [w EXCEPT !.t.pc = "await_db"]
        ELSE IF cacheConfigured THEN [w EXCEPT !.t.pc = "await_redis"]
        ELSE ReadinessReturn(w)

(***************************************************************************)
(* Example routes (api/v1/example.py) over ExampleService.                 *)
(***************************************************************************)
\* ExampleService.get / update / delete: the stored item, or None / False.
Lookup(w, id) == [w EXCEPT !.t.lookup = IF id \in w.storage THEN "hit" ELSE "miss"]

\* ExampleBase: name has min_length=1 and is required.
ExampleCreateValid(body) == body.name \notin {NoneVal, EmptyStr}

\* ExampleCreate(...).model_dump(): the defaults fill the absent fields.
model_dump(body) ==
    [name |-> body.name, description |-> body.description,
     is_active |-> IF body.is_active = "absent" THEN "true" ELSE body.is_active]

\* The id of the example a request creates (uuid4, or the column default).
NewId(r) == "uuid-" \o ToString(r)

\* (a create that answers with the schema's defaults instead of the data)
CreateDefaults(w, data) ==
    [LogEvent([w EXCEPT !.storage = @ \cup {NewId(w.r)}], "example_created") EXCEPT
        !.t.resp = [MkResp(200, "ExampleResponse") EXCEPT
            !.body = [id |-> NewId(w.r), name |-> data.name, description |-> NoneVal,
                      is_active |-> "true", created_at |-> "now"]]]

\* ExampleService.create: the item is stored (in memory, or in the session
\* by add and flush, which may raise) and returned as an ExampleResponse.
ExampleService_create(w, data) ==
    IF dbConfigured /\ w.t.fault = "flush" THEN [w EXCEPT !.t.exc = "SQLAlchemyError"]
    ELSE LET dump == model_dump(data)
         IN  [LogEvent([w EXCEPT !.storage = @ \cup {NewId(w.r)}], "example_created") EXCEPT
                !.t.resp = [MkResp(200, "ExampleResponse") EXCEPT
                    !.body = [id |-> NewId(w.r), name |-> dump.name,
                              description |-> dump.description,
                              is_active |-> dump.is_active, created_at |-> "now"]]]

\* create_example, status_code=201
create_example(w0) ==
    LET w == ExampleService_create(LogEvent(w0, "creating_example"), w0.t.body)
    IN  IF w.t.exc # "none" THEN w ELSE [w EXCEPT !.t.resp.status_code = 201]

\* get_example
get_example(w0, id) ==
    LET w == Lookup(w0, id)
    IN  IF w.t.lookup = "miss" THEN [w EXCEPT !.t.exc = "NotFoundError"]
        ELSE [w EXCEPT !.t.resp = MkResp(200, "ExampleResponse")]

\* update_example
update_example(w0, id) ==
    LET w == Lookup(w0, id)
    IN  IF w.t.lookup = "miss" THEN [w EXCEPT !.t.exc = "NotFoundError"]
        ELSE [LogEvent(w, "example_updated") EXCEPT !.t.resp = MkResp(200, "ExampleResponse")]

\* delete_example
delete_example(w0, id) ==
    LET w == Lookup(w0, id)
    IN  IF w.t.lookup = "miss" THEN [w EXCEPT !.t.exc = "NotFoundError"]
        ELSE [LogEvent(w, "example_deleted") EXCEPT
            !.storage = @ \ {id}, !.t.resp = MkResp(204, "empty")]

(***************************************************************************)
(* Routing (health_router, api_router under /api/v1).                      *)
(***************************************************************************)
IsProbe(path) == path \in {<<"health", "ready">>, <<"health", "startup">>}

\* The path operation function the router selects for the request.
Endpoint(w) ==
    LET m == w.t.method
        p == w.t.path
    IN  CASE m = "GET" /\ p = <<"health">> -> health(w)
          [] m = "GET" /\ p = <<"health", "live">> -> liveness(w)
          [] m = "GET" /\ IsProbe(p) -> ReadinessBegin(w)
          [] m = "POST" /\ p = <<"api", "v1", "examples">> -> create_example(w)
          [] m = "GET" /\ Len(p) = 4 /\ SubSeq(p, 1, 3) = <<"api", "v1", "examples">> ->
                get_example(w, p[4])
          [] m = "PATCH" /\ Len(p) = 4 /\ SubSeq(p, 1, 3) = <<"api", "v1", "examples">> ->
                update_example(w, p[4])
          [] m = "DELETE" /\ Len(p) = 4 /\ SubSeq(p, 1, 3) = <<"api", "v1", "examples">> ->
                delete_example(w, p[4])
          [] OTHER -> [w EXCEPT !.t.exc = "HTTPException"]

\* The routes of api/v1/example.py: they depend on get_example_service.
IsExampleRoute(w) ==
    \/ w.t.method = "POST" /\ w.t.path = <<"api", "v1", "examples">>
    \/ /\ w.t.method \in {"GET", "PATCH", "DELETE"}
       /\ Len(w.t.path) = 4
       /\ SubSeq(w.t.path, 1, 3) = <<"api", "v1", "examples">>

\* FastAPI validates the body parameter `data: ExampleCreate`.
RequestValid(w) ==
    (w.t.method = "POST" /\ w.t.path = <<"api", "v1", "examples">>) =>
        ExampleCreateValid(w.t.body)

SessionCall(op, exc) == [op |-> op, exc |-> exc]

\* (a get_session without the except clause)
SessionExitNoRollback(w0, w) ==
    IF w.t.exc # "none"
    THEN [w EXCEPT !.t.session = @ \o <<SessionCall("throw", w.t.exc),
                                         SessionCall("raise", w.t.exc)>>]
    ELSE IF w.t.fault \in {"commit", "commit_after_send"}
    THEN [w EXCEPT !.storage = w0.storage,
                   !.t.exc = IF w.t.fault = "commit" THEN "SQLAlchemyError" ELSE @,
                   !.t.resp = IF w.t.fault = "commit" THEN NoResp ELSE @,
                   !.t.session = @ \o <<SessionCall("commit_raises", "SQLAlchemyError"),
                                         SessionCall("raise", "SQLAlchemyError")>>]
    ELSE [w EXCEPT !.t.session = Append(@, SessionCall("commit", "none"))]

\* get_session from the yield on: w is the outcome of the code that used the
\* session, w0 the state when the session began.  An exception thrown in at
\* the yield, or raised by commit, is answered by rollback and raised again;
\* what a rolled-back session wrote is gone.
SessionExit(w0, w) ==
    IF w.t.exc # "none"
    THEN [w EXCEPT !.storage = w0.storage,
                   !.t.session = @ \o <<SessionCall("throw", w.t.exc),
                                         SessionCall("rollback", "none"),
                                         SessionCall("raise", w.t.exc)>>]
    ELSE IF w.t.fault \in {"commit", "commit_after_send"}
    THEN [w EXCEPT !.storage = w0.storage,
                   !.t.exc = IF w.t.fault = "commit" THEN "SQLAlchemyError" ELSE @,
                   !.t.resp = IF w.t.fault = "commit" THEN NoResp ELSE @,
                   !.t.session = @ \o <<SessionCall("commit_raises", "SQLAlchemyError"),
                                         SessionCall("rollback", "none"),
                                         SessionCall("raise", "SQLAlchemyError")>>]
    ELSE [w EXCEPT !.t.session = Append(@, SessionCall("commit", "none"))]

\* get_session around the request: FastAPI enters the dependency, calls the
\* path operation function when the request is valid, and leaves the
\* dependency; a validation error is raised after that.
get_session(w0) ==
    LET w1 == [w0 EXCEPT !.t.session = <<SessionCall("begin", "none")>>]
        h == IF RequestValid(w1)
             THEN Endpoint([w1 EXCEPT !.t.session = Append(@, SessionCall("handler", "none"))])
             ELSE w1
        x == SessionExit(w0, h)
    IN  IF ~RequestValid(w1) /\ x.t.exc = "none"
        THEN [x EXCEPT !.t.exc = "RequestValidationError", !.t.resp = NoResp]
        ELSE x

Route(w) ==
    IF dbConfigured /\ IsExampleRoute(w) THEN get_session(w)
    ELSE IF RequestValid(w) THEN Endpoint(w)
    ELSE [w EXCEPT !.t.exc = "RequestValidationError"]

\* What a probe route hands back once readiness has returned.
ProbeReturn(w) ==
    serialize_response(IF w.t.path = <<"health", "startup">> THEN startup(w) ELSE w)

\* The route has answered or raised: the outcome enters the chain outwards.
Outwards(w) == RunOut([w EXCEPT !.t.pc = "out", !.t.depth = Len(Stack)])

\* A task runs inwards from the middleware at t.depth until call_next of a
\* BaseHTTPMiddleware spawns the next task, a middleware answers by itself,
\* or the route is reached and runs up to its first await.
RECURSIVE RunIn(_, _)
RunIn(w, input) ==
    IF w.t.depth > Len(Stack)
    THEN LET h == Route(Bind(w, input))
         IN  IF h.t.pc \in {"await_db", "await_redis"} THEN h
             ELSE Outwards(IF IsProbe(h.t.path) THEN ProbeReturn(h) ELSE h)
    ELSE LET cls == Stack[w.t.depth]
             w1 == Enter(cls, w, input)
         IN  IF w1.t.resp # NoResp
             THEN RunOut([w1 EXCEPT !.t.pc = "out", !.t.depth = w.t.depth - 1])
             ELSE IF IsBaseHTTPMiddleware(cls)
             THEN [w1 EXCEPT !.t.pc = "call_next", !.t.depth = w.t.depth + 1]
             ELSE RunIn([w1 EXCEPT !.t.depth = w.t.depth + 1], input)

(***************************************************************************)
(* State machine.                                                          *)
(***************************************************************************)
World(r) == [r |-> r, t |-> req[r], ctx |-> ctx, storage |-> storage]

Commit(w) ==
    /\ req' = [req EXCEPT ![w.r] = w.t]
    /\ ctx' = w.ctx
    /\ storage' = w.storage

\* Whether the run that enters the chain at depth d looks at the request
\* line before it is suspended: CORSMiddleware and the router do.
RECURSIVE ReadsRequest(_)
ReadsRequest(d) ==
    IF d > Len(Stack) THEN TRUE
    ELSE IF Stack[d] = "CORSMiddleware" THEN TRUE
    ELSE IF IsBaseHTTPMiddleware(Stack[d]) THEN FALSE
    ELSE ReadsRequest(d + 1)

\* The request lines a run entering at depth d may find: the one already
\* read, else any; a single one stands for all in a run that reads none.
BoundInputs(r, d) ==
    IF req[r].method # "" THEN {[method |-> req[r].method, path |-> req[r].path]}
    ELSE IF ReadsRequest(d) THEN Inputs
    ELSE {CHOOSE input \in Inputs : TRUE}

Init ==
    /\ started = FALSE
    /\ dbConfigured \in BOOLEAN
    /\ cacheConfigured \in BOOLEAN
    /\ redis_pool = "None"
    /\ storage \in SUBSET {"e1"}
    /\ (~dbConfigured => storage = {})
    /\ ctx = [r \in Reqs |-> <<>>]
    /\ req = [r \in Reqs |-> IdleReq]

\* lifespan() up to its yield: init_db when a database is configured;
\* init_redis is not called.
LifespanStartup ==
    /\ ~started
    /\ started' = TRUE
    /\ UNCHANGED <<dbConfigured, cacheConfigured, redis_pool, storage, ctx, req>>

\* The server starts a task for a new request: it runs in a copy of the
\* server's context, where correlation_id_ctx holds its default "".
Arrive(r) ==
    /\ started
    /\ req[r].pc = "idle"
    /\ \A q \in Reqs : q < r => req[q].pc # "idle"
    /\ \E header \in HeaderValues, input \in BoundInputs(r, 1) :
        Commit(RunIn([World(r) EXCEPT
                        !.t = [IdleReq EXCEPT !.pc = "in", !.depth = 1,
                                              !.header = header],
                        !.ctx = [ctx EXCEPT ![r] = <<EmptyStr>>]],
                     input))
    /\ UNCHANGED <<started, dbConfigured, cacheConfigured, redis_pool>>

\* The task spawned by call_next runs the inner application.
CallNext(r) ==
    /\ req[r].pc = "call_next"
    /\ \E input \in BoundInputs(r, req[r].depth) : Commit(RunIn(World(r), input))
    /\ UNCHANGED <<started, dbConfigured, cacheConfigured, redis_pool>>

\* readiness() resumes with the result of check_db_health().
ReadinessCheckDb(r) ==
    /\ req[r].pc = "await_db"
    /\ \E probeOk \in BOOLEAN :
        LET db_health == check_db_health(probeOk)
            w == ReadinessDb(
                    health_check_failed(World(r), "database_health_check_failed", db_health),
                    db_health)
        IN  Commit(IF cacheConfigured THEN [w EXCEPT !.t.pc = "await_redis"]
                   ELSE Outwards(ProbeReturn(ReadinessReturn(w))))
    /\ UNCHANGED <<started, dbConfigured, cacheConfigured, redis_pool>>

\* readiness() resumes with the result of check_redis_health().
ReadinessCheckRedis(r) ==
    /\ req[r].pc = "await_redis"
    /\ \E pingOk \in BOOLEAN :
        LET redis_health == check_redis_health(redis_pool, pingOk)
            w == ReadinessRedis(
                    health_check_failed(World(r), "redis_health_check_failed", redis_health),
                    redis_health)
        IN  Commit(Outwards(ProbeReturn(ReadinessReturn(w))))
    /\ UNCHANGED <<started, dbConfigured, cacheConfigured, redis_pool>>

\* dispatch() of a BaseHTTPMiddleware resumes after `await call_next(request)`.
DispatchResume(r) ==
    /\ req[r].pc = "resume"
    /\ LET w == World(r)
       IN  Commit(RunOut([Exit(Stack[w.t.depth], w) EXCEPT !.t.depth = w.t.depth - 1]))
    /\ UNCHANGED <<started, dbConfigured, cacheConfigured, redis_pool>>

Next ==
    \/ LifespanStartup
    \/ \E r \in Reqs :
        \/ Arrive(r)
        \/ CallNext(r)
        \/ ReadinessCheckDb(r)
        \/ ReadinessCheckRedis(r)
        \/ DispatchResume(r)

Spec == Init /\ [][Next]_vars

(***************************************************************************)
(* Properties.                                                             *)
(***************************************************************************)
Done(r) == req[r].pc = "done"
Answer(r) == req[r].resp
Configured ==
    (IF dbConfigured THEN {"database"} ELSE {})
    \cup (IF cacheConfigured THEN {"redis"} ELSE {})
Reported(r) == {Answer(r).map[c].status : c \in DOMAIN Answer(r).map}
ReadyDone(r) == Done(r) /\ req[r].path = <<"health", "ready">>
StartupDone(r) == Done(r) /\ req[r].path = <<"health", "startup">>

\* The rule of the specification: the most severe reported status wins.
MostSevere(statuses) ==
    IF UNHEALTHY \in statuses THEN UNHEALTHY
    ELSE IF \E s \in statuses : s # HEALTHY THEN DEGRADED
    ELSE HEALTHY

\* The rule of readiness(): the database decides unhealthy, the cache degraded.
ByComponent(map) ==
    IF "database" \in DOMAIN map /\ map["database"].status # HEALTHY THEN UNHEALTHY
    ELSE IF "redis" \in DOMAIN map /\ map["redis"].status # HEALTHY THEN DEGRADED
    ELSE HEALTHY

\* C1 as stated: the overall status of every readiness answer is the most
\* severe status any component reported.
C1_MostSevereWins ==
    \A r \in Reqs : ReadyDone(r) => Answer(r).status = MostSevere(Reported(r))

\* C1, amended: the overall status of every readiness answer is unhealthy
\* when the database checker reports a non-healthy status, else degraded when
\* the cache checker reports a non-healthy status, else healthy.
C1_ByComponent ==
    \A r \in Reqs : ReadyDone(r) => Answer(r).status = ByComponent(Answer(r).map)

\* A readiness answer with a healthy database and a non-healthy cache.
C1_Witness ==
    \E r \in Reqs :
        /\ ReadyDone(r)
        /\ DOMAIN Answer(r).map = {"database", "redis"}
        /\ Answer(r).map["database"].status = HEALTHY
        /\ Answer(r).map["redis"].status = UNHEALTHY
        /\ Answer(r).status = DEGRADED

\* C2: GET /health/ready answers 200 exactly when every configured component
\* reports healthy, and otherwise 503 with a components map whose keys are
\* the configured components.
C2_ReadyStatusCode ==
    \A r \in Reqs : ReadyDone(r) =>
        /\ Answer(r).status_code \in {200, 503}
        /\ Answer(r).status_code = 200 <=>
              \A c \in Configured :
                  c \in DOMAIN req[r].components
                  /\ req[r].components[c].status = HEALTHY
        /\ Answer(r).status_code # 200 =>
              /\ Answer(r).components = "map"
              /\ DOMAIN Answer(r).map = Configured

\* Two readiness answers of one deployment: 200 with a component checked,
\* and 503.
C2_Witness ==
    \E r, q \in Reqs :
        /\ ReadyDone(r) /\ Answer(r).status_code = 200 /\ Answer(r).components = "map"
        /\ ReadyDone(q) /\ Answer(q).status_code = 503

\* C3 as stated: a request without X-Correlation-ID is answered with a newly
\* generated non-empty id in that header, a request with one is answered
\* with the supplied value.
C3_HeaderEchoed ==
    \A r \in Reqs : Done(r) =>
        /\ HEADER_NAME \in HeaderNames(Answer(r))
        /\ req[r].header = NoneVal => Answer(r).xcid = uuid4(r)
        /\ req[r].header # NoneVal => Answer(r).xcid = req[r].header

\* C4: whatever the interleaving of the requests in flight, every context of
\* a request's tasks holds the id assigned to that request (the default ""
\* before one is assigned), and every read made while handling it (handler,
\* logger, inner middleware) returned that id.
C4_ContextIsolated ==
    \A r \in Reqs :
        /\ \A i \in DOMAIN ctx[r] :
              ctx[r][i] = IF req[r].cid = NoneVal THEN EmptyStr ELSE req[r].cid
        /\ req[r].observed \subseteq {req[r].cid}
        /\ \A i \in DOMAIN req[r].log : req[r].log[i].correlation_id = req[r].cid

\* A request suspended in its handler while a request that arrived later,
\* with another id, has been answered and has logged under its own id.
C4_Witness ==
    \E r, q \in Reqs :
        /\ r < q
        /\ req[r].pc \in {"await_db", "await_redis"}
        /\ Done(q)
        /\ req[q].cid # req[r].cid
        /\ req[q].observed = {req[q].cid}
        /\ CtxGet(ctx, r) = req[r].cid

SecurityHeaderNames == {SecurityHeaders[i] : i \in 1..Len(SecurityHeaders)}

\* C5 as stated: every response that leaves the application carries the six
\* security headers, error responses included.
C5_SecurityHeadersOnEveryResponse ==
    \A r \in Reqs : Done(r) => SecurityHeaderNames \subseteq HeaderNames(Answer(r))

\* C6 as stated: every response carries the request's correlation id in
\* X-Correlation-ID, also when the route handler raised.
C6_CorrelationIdOnEveryResponse ==
    \A r \in Reqs : Done(r) =>
        /\ HEADER_NAME \in HeaderNames(Answer(r))
        /\ Answer(r).xcid = req[r].cid

IsLivenessPath(path) == path \in {<<"health">>, <<"health", "live">>}

\* C7: GET /health and GET /health/live answer 200 with status healthy and
\* no components, and no component checker runs while they are handled.
C7_LivenessAlwaysHealthy ==
    \A r \in Reqs : IsLivenessPath(req[r].path) =>
        /\ req[r].checked = {}
        /\ Done(r) =>
              /\ Answer(r).status_code = 200
              /\ Answer(r).status = HEALTHY
              /\ Answer(r).components \in {"absent", "null"}
              /\ Answer(r).map = EmptyDict

\* Both liveness routes answered in a deployment with a database and a cache,
\* whose checkers are not invoked.
C7_Witness ==
    /\ dbConfigured /\ cacheConfigured
    /\ \E r, q \in Reqs :
        /\ Done(r) /\ req[r].path = <<"health">>
        /\ Done(q) /\ req[q].path = <<"health", "live">>

IsExamplePath(path) == Len(path) = 4 /\ SubSeq(path, 1, 3) = <<"api", "v1", "examples">>

\* C8 as stated: GET, PATCH or DELETE of an example that does not exist is
\* answered 404 with an error envelope whose error is NOT_FOUND.
C8_MissingExampleIs404 ==
    \A r \in Reqs :
        Done(r) /\ IsExamplePath(req[r].path) /\ req[r].lookup = "miss" =>
            /\ Answer(r).status_code = 404
            /\ Answer(r).tag = "ErrorResponse"
            /\ Answer(r).error = "NOT_FOUND"

\* C9: for the same component checker results, GET /health/startup answers
\* with the status code, overall status and components of GET /health/ready.
C9_StartupAsReadiness ==
    \A r, q \in Reqs :
        ReadyDone(r) /\ StartupDone(q) /\ req[r].components = req[q].components =>
            /\ Answer(q).status_code = Answer(r).status_code
            /\ Answer(q).status = Answer(r).status
            /\ Answer(q).components = Answer(r).components
            /\ Answer(q).map = Answer(r).map

\* A readiness and a startup answer over the same failing component results.
C9_Witness ==
    \E r, q \in Reqs :
        /\ ReadyDone(r) /\ StartupDone(q)
        /\ req[r].components = req[q].components
        /\ req[r].components # EmptyDict
        /\ Answer(q).status_code = 503

UserClasses ==
    {"SecurityHeadersMiddleware", "CORSMiddleware", "RequestLoggingMiddleware",
     "CorrelationIdMiddleware"}
IsUserClass(cls) == cls \in UserClasses
ReachedRoute(r) == Len(req[r].trail) = Len(Stack)
\* The security headers were added to the answer after every other header.
SecurityAddedLast(resp) ==
    \A i, j \in 1..Len(resp.headers) :
        resp.headers[i] \in SecurityHeaderNames
        /\ resp.headers[j] \notin SecurityHeaderNames => j < i
SecurityAddedFirst(resp) ==
    \A i, j \in 1..Len(resp.headers) :
        resp.headers[i] \in SecurityHeaderNames
        /\ resp.headers[j] \notin SecurityHeaderNames => i < j

ProbeDone(r) == Done(r) /\ IsProbe(req[r].path)

\* C11: the components field of a readiness or startup answer is present
\* exactly when a component check ran: with neither database nor cache
\* configured the probe answers 200 with components null, and with at least
\* one configured the answer carries a non-empty components map.
C11_ComponentsIffChecked ==
    \A r \in Reqs : ProbeDone(r) =>
        /\ Answer(r).components = "map" <=> req[r].checked # {}
        /\ Configured = {} =>
              /\ Answer(r).status_code = 200
              /\ Answer(r).components = "null"
        /\ Configured # {} =>
              /\ Answer(r).components = "map"
              /\ DOMAIN Answer(r).map # {}

\* A readiness and a startup answer of a deployment without database and
\* cache: 200, components null.
C11_Witness ==
    /\ Configured = {}
    /\ \E r, q \in Reqs :
        /\ ReadyDone(r) /\ Answer(r).components = "null" /\ Answer(r).status_code = 200
        /\ StartupDone(q) /\ Answer(q).components = "null"

\* C12: a readiness answer whose cache checker reported a non-healthy status
\* and whose database checker reported healthy has overall status degraded
\* and HTTP status 503.
C12_CacheDownIsDegraded ==
    \A r \in Reqs :
        ( /\ ReadyDone(r)
          /\ DOMAIN req[r].components = {"database", "redis"}
          /\ req[r].components["database"].status = HEALTHY
          /\ req[r].components["redis"].status # HEALTHY ) =>
            /\ Answer(r).status = DEGRADED
            /\ Answer(r).status_code = 503

\* A readiness answer 503 after check_db_health succeeded and
\* check_redis_health found no pool.
C12_Witness ==
    \E r \in Reqs :
        /\ ReadyDone(r)
        /\ req[r].checked = {"database", "redis"}
        /\ req[r].components["database"].status = HEALTHY
        /\ req[r].components["redis"].message = "Redis pool not initialized"
        /\ Answer(r).status_code = 503

(***************************************************************************)
(* The correlation-id functions of core/logging.py, called in any order    *)
(* from the contexts of concurrent tasks.                                  *)
(***************************************************************************)
\* Number of calls made in one context.
MaxCalls == 3

InitLogging ==
    /\ started = TRUE
    /\ dbConfigured = FALSE
    /\ cacheConfigured = FALSE
    /\ redis_pool = "None"
    /\ storage = {}
    /\ ctx = [r \in Reqs |-> <<EmptyStr>>]
    /\ req = [r \in Reqs |-> IdleReq]

\* correlation_id_ctx.set(correlation_id), as CorrelationIdMiddleware does
\* with the inbound header or a new uuid.
ContextSet(r) ==
    /\ Len(req[r].calls) < MaxCalls
    /\ \E header \in HeaderValues :
        LET correlation_id == IF Falsy(header) THEN uuid4(r) ELSE header
            w == World(r)
        IN  Commit([w EXCEPT !.ctx = CtxSet(w.ctx, r, correlation_id),
                             !.t.calls = Append(@, [op |-> "set", value |-> correlation_id])])
    /\ UNCHANGED <<started, dbConfigured, cacheConfigured, redis_pool>>

\* A call of get_correlation_id() in the context of task r.
GetCorrelationId(r) ==
    /\ Len(req[r].calls) < MaxCalls
    /\ Commit(get_correlation_id(World(r)))
    /\ UNCHANGED <<started, dbConfigured, cacheConfigured, redis_pool>>

NextLogging == \E r \in Reqs : ContextSet(r) \/ GetCorrelationId(r)

SpecLogging == InitLogging /\ [][NextLogging]_vars

Calls(r) == req[r].calls

\* C13: get_correlation_id never returns an empty id; called in a context
\* that holds none it returns a newly generated id and stores it, so the
\* context holds the value returned and the next call returns it again;
\* called after an id was set it returns that id.
C13_GetCorrelationId ==
    \A r \in Reqs :
        /\ \A i \in DOMAIN Calls(r) :
              /\ ~Falsy(Calls(r)[i].value)
              /\ Calls(r)[i].op = "get" /\ i = 1 => Calls(r)[i].value[1] = "uuid4"
              /\ Calls(r)[i].op = "get" /\ i > 1 =>
                    Calls(r)[i].value = Calls(r)[i - 1].value
        /\ Calls(r) # <<>> => CtxGet(ctx, r) = Calls(r)[Len(Calls(r))].value
        /\ \A q \in Reqs : \A i \in DOMAIN Calls(r) : \A j \in DOMAIN Calls(q) :
              ( /\ q # r
                /\ Calls(r)[i].value[1] = "uuid4"
                /\ Calls(q)[j].value[1] = "uuid4" ) =>
                    Calls(r)[i].value # Calls(q)[j].value

\* Two calls in a context that held no id returned the same generated id,
\* and a call in another context returned the id set there.
C13_Witness ==
    \E r, q \in Reqs :
        /\ Len(Calls(r)) >= 2
        /\ Calls(r)[1].op = "get" /\ Calls(r)[2].op = "get"
        /\ Calls(r)[2].value = Calls(r)[1].value
        /\ Len(Calls(q)) >= 2
        /\ Calls(q)[1] = [op |-> "set", value |-> ClientId]
        /\ Calls(q)[2] = [op |-> "get", value |-> ClientId]

(***************************************************************************)
(* The examples API under its clients: POST /api/v1/examples and GET by    *)
(* id, over a database session that may fail.                              *)
(***************************************************************************)
InitExamples ==
    /\ started = FALSE
    /\ dbConfigured \in BOOLEAN
    /\ cacheConfigured = FALSE
    /\ redis_pool = "None"
    /\ storage = {}
    /\ ctx = [r \in Reqs |-> <<>>]
    /\ req = [r \in Reqs |-> IdleReq]

\* The server starts a task for a request of an API client, which sends no
\* X-Correlation-ID.
ArriveExample(r) ==
    /\ started
    /\ req[r].pc = "idle"
    /\ \A q \in Reqs : q < r => req[q].pc # "idle"
    /\ Commit(RunIn([World(r) EXCEPT
                        !.t = [IdleReq EXCEPT !.pc = "in", !.depth = 1],
                        !.ctx = [ctx EXCEPT ![r] = <<EmptyStr>>]],
                     CHOOSE input \in Inputs : TRUE))
    /\ UNCHANGED <<started, dbConfigured, cacheConfigured, redis_pool>>

\* The task spawned by call_next runs the inner application; the run that
\* reaches the router reads the request and meets the database.
CallNextExample(r) ==
    /\ req[r].pc = "call_next"
    /\ IF ReadsRequest(req[r].depth)
       THEN \E input \in ExampleInputs :
              \E fault \in IF dbConfigured THEN Faults ELSE {"none"} :
                Commit(RunIn([World(r) EXCEPT !.t.body = input.body, !.t.fault = fault],
                             [method |-> input.method, path |-> input.path]))
       ELSE Commit(RunIn(World(r), CHOOSE input \in Inputs : TRUE))
    /\ UNCHANGED <<started, dbConfigured, cacheConfigured, redis_pool>>

NextExamples ==
    \/ LifespanStartup
    \/ \E r \in Reqs :
        \/ ArriveExample(r)
        \/ CallNextExample(r)
        \/ DispatchResume(r)

SpecExamples == InitExamples /\ [][NextExamples]_vars

IsCreate(r) == req[r].method = "POST" /\ req[r].path = <<"api", "v1", "examples">>
\* The database raised nothing while the request was handled.
NoFault(r) == ~dbConfigured \/ req[r].fault = "none"

\* C14: POST /api/v1/examples with a valid payload is answered 201 with a
\* body that echoes name, description and is_active (true when absent) and
\* carries a new id and a created_at, and the example is stored; a payload
\* with an empty name is answered 422 and nothing is stored.  (The database
\* session raising nothing.)
C14_CreateExample ==
    \A r \in Reqs : Done(r) /\ IsCreate(r) /\ NoFault(r) =>
        IF req[r].body.name = EmptyStr
        THEN /\ Answer(r).status_code = 422
             /\ NewId(r) \notin storage
             /\ Answer(r).body = NoBody
        ELSE /\ Answer(r).status_code = 201
             /\ Answer(r).tag = "ExampleResponse"
             /\ Answer(r).body.name = req[r].body.name
             /\ Answer(r).body.description = req[r].body.description
             /\ Answer(r).body.is_active =
                    (IF req[r].body.is_active = "absent" THEN "true"
                     ELSE req[r].body.is_active)
             /\ Answer(r).body.id = NewId(r)
             /\ \A q \in Reqs : q # r /\ Done(q) => Answer(q).body.id # Answer(r).body.id
             /\ Answer(r).body.created_at # "none"
             /\ NewId(r) \in storage

\* A valid payload answered 201 and stored, and an empty name answered 422
\* which stored nothing.
C14_Witness ==
    \E r, q \in Reqs :
        /\ Done(r) /\ IsCreate(r) /\ NoFault(r)
        /\ req[r].body.description = TestDescription /\ req[r].body.is_active = "false"
        /\ Answer(r).status_code = 201
        /\ Done(q) /\ IsCreate(q) /\ NoFault(q)
        /\ req[q].body.name = EmptyStr
        /\ Answer(q).status_code = 422
        /\ storage = {NewId(r)}

Session(r) == req[r].session
Has(s, op) == \E i \in DOMAIN s : s[i].op = op
Attempted(s) == Has(s, "commit") \/ Has(s, "commit_raises")

InitReadiness ==
    /\ started = TRUE
    /\ dbConfigured \in BOOLEAN
    /\ cacheConfigured \in BOOLEAN
    /\ redis_pool \in {"None", "pool"}
    /\ (~cacheConfigured => redis_pool = "None")
    /\ storage = {}
    /\ ctx = [r \in Reqs |-> <<EmptyStr>>]
    /\ req = [r \in Reqs |-> IdleReq]

\* readiness() returns; the route wrapper applies the status code.
ReadinessEnd(w) == [ProbeReturn(ReadinessReturn(w)) EXCEPT !.t.pc = "done"]

\* readiness(response) or startup(response) is called and runs to its
\* first await, or to its return.
ReadinessCall(r) ==
    /\ req[r].pc = "idle"
    /\ \E path \in {<<"health", "ready">>, <<"health", "startup">>} :
        LET w == ReadinessBegin([World(r) EXCEPT !.t.method = "GET", !.t.path = path])
        IN  Commit(IF w.t.pc = "idle" THEN ReadinessEnd(w) ELSE w)
    /\ UNCHANGED <<started, dbConfigured, cacheConfigured, redis_pool>>

\* check_db_health() returns to readiness().
CheckDbReturns(r) ==
    /\ req[r].pc = "await_db"
    /\ \E probeOk \in BOOLEAN :
        LET w0 == World(r)
            db_health == check_db_health(probeOk)
            w == ReadinessDb(
                    health_check_failed(
                        [w0 EXCEPT !.t.probe =
                            DictSet(@, "database", IF probeOk THEN "ok" ELSE "raised")],
                        "database_health_check_failed", db_health),
                    db_health)
        IN  Commit(IF cacheConfigured THEN [w EXCEPT !.t.pc = "await_redis"]
                   ELSE ReadinessEnd(w))
    /\ UNCHANGED <<started, dbConfigured, cacheConfigured, redis_pool>>

\* check_redis_health() returns to readiness().
CheckRedisReturns(r) ==
    /\ req[r].pc = "await_redis"
    /\ \E pingOk \in (IF redis_pool = "None" THEN {TRUE} ELSE BOOLEAN) :
        LET w0 == World(r)
            outcome == IF redis_pool = "None" THEN "not run"
                       ELSE IF pingOk THEN "ok" ELSE "raised"
            redis_health == check_redis_health(redis_pool, pingOk)
            w == ReadinessRedis(
                    health_check_failed([w0 EXCEPT !.t.probe = DictSet(@, "redis", outcome)],
                                        "redis_health_check_failed", redis_health),
                    redis_health)
        IN  Commit(ReadinessEnd(w))
    /\ UNCHANGED <<started, dbConfigured, cacheConfigured, redis_pool>>

NextReadiness ==
    \E r \in Reqs : ReadinessCall(r) \/ CheckDbReturns(r) \/ CheckRedisReturns(r)

SpecReadiness == InitReadiness /\ [][NextReadiness]_vars

\* Two evaluations whose checkers reported each other's statuses.
Exchanged(r, q) ==
    /\ Done(r) /\ Done(q)
    /\ DOMAIN req[r].components = {"database", "redis"}
    /\ DOMAIN req[q].components = {"database", "redis"}
    /\ req[r].components["database"].status = req[q].components["redis"].status
    /\ req[r].components["redis"].status = req[q].components["database"].status

\* C15 as stated: exchanging the statuses reported by the database checker
\* and the cache checker changes neither the overall status nor the HTTP
\* status code.
C15_Symmetric ==
    \A r, q \in Reqs : Exchanged(r, q) =>
        /\ Answer(r).status = Answer(q).status
        /\ Answer(r).status_code = Answer(q).status_code

\* C15, amended: exchanging the statuses reported by the two checkers
\* changes neither the HTTP status code nor whether the overall status is
\* healthy; the overall status itself goes by component (unhealthy for a
\* non-healthy database, degraded for a non-healthy cache alone).
C15_StatusCodeSymmetric ==
    \A r, q \in Reqs : Exchanged(r, q) =>
        /\ Answer(r).status_code = Answer(q).status_code
        /\ Answer(r).status = HEALTHY <=> Answer(q).status = HEALTHY
        /\ Answer(r).status = ByComponent(req[r].components)
        /\ Answer(q).status = ByComponent(req[q].components)

\* Healthy database with unhealthy cache, and unhealthy database with
\* healthy cache: both 503, one degraded and one unhealthy.
C15_Witness ==
    \E r, q \in Reqs :
        /\ Exchanged(r, q)
        /\ req[r].components["database"].status = HEALTHY
        /\ req[r].components["redis"].status = UNHEALTHY
        /\ Answer(r).status = DEGRADED /\ Answer(q).status = UNHEALTHY
        /\ Answer(r).status_code = 503 /\ Answer(q).status_code = 503

Severity(status) ==
    CASE status = HEALTHY -> 1
      [] status = DEGRADED -> 2
      [] status = UNHEALTHY -> 3
      [] OTHER -> 0

\* C16: within one readiness evaluation the overall status starts at healthy
\* and every step leaves it as it is or raises it in severity (healthy <
\* degraded < unhealthy): a later result never lowers it.
C16_OverallOnlyRises ==
    [][\A r \in Reqs :
          /\ req[r].pc = "idle" /\ req'[r].pc \in {"await_db", "await_redis"}
                => req'[r].overall_status = HEALTHY
          /\ req[r].pc # "idle"
                => Severity(req'[r].overall_status) >= Severity(req[r].overall_status)
          /\ req'[r].pc = "done" => Severity(req'[r].overall_status) >= 1]_vars

\* An evaluation that ended unhealthy after the database check failed and
\* the later cache check succeeded.
C16_Witness ==
    \E r \in Reqs :
        /\ Done(r)
        /\ DOMAIN req[r].components = {"database", "redis"}
        /\ req[r].components["database"].status = UNHEALTHY
        /\ req[r].components["redis"].status = HEALTHY
        /\ req[r].overall_status = UNHEALTHY

\* C19: check_db_health and check_redis_health hand the aggregator a
\* ComponentHealth whatever the probe does: healthy with a measured latency
\* when the probe succeeded, unhealthy with a message and a measured latency
\* when the probe raised (and unhealthy with a message when there is no
\* Redis pool to probe); no exception reaches readiness().
C19_CheckersNeverRaise ==
    \A r \in Reqs :
        /\ req[r].exc = "none"
        /\ DOMAIN req[r].components = DOMAIN req[r].probe
        /\ \A c \in DOMAIN req[r].components :
              LET h == req[r].components[c]
                  outcome == req[r].probe[c]
              IN  /\ h.status \in {HEALTHY, UNHEALTHY}
                  /\ outcome = "ok" =>
                        h.status = HEALTHY /\ h.latency_ms /\ h.message = "none"
                  /\ outcome = "raised" =>
                        h.status = UNHEALTHY /\ h.latency_ms /\ h.message = "error"
                  /\ outcome = "not run" =>
                        /\ c = "redis" /\ redis_pool = "None"
                        /\ h.status = UNHEALTHY /\ h.message # "none"

\* An evaluation in which both probes raised and both results were folded in.
C19_Witness ==
    \E r \in Reqs :
        /\ Done(r)
        /\ DOMAIN req[r].probe = {"database", "redis"}
        /\ req[r].probe["database"] = "raised"
        /\ req[r].probe["redis"] = "raised"
        /\ req[r].components["redis"].status = UNHEALTHY
        /\ Answer(r).status_code = 503

Log(r) == req[r].log
Events(r, event) == {i \in DOMAIN Log(r) : Log(r)[i].event = event}
\* The request is being handled inside CorrelationIdMiddleware.
Downstream(r) ==
    \E i \in DOMAIN req[r].trail : req[r].trail[i] = "CorrelationIdMiddleware"

\* C17: the correlation id is in the request's context from the moment the
\* application inside CorrelationIdMiddleware starts to run, so every log
\* record written while the request is handled, the http_request record of
\* RequestLoggingMiddleware included, carries the request's id, which is the
\* id of the response's X-Correlation-ID header.
C17_LogsCarryCorrelationId ==
    \A r \in Reqs :
        /\ Downstream(r) /\ ~Done(r) =>
              /\ ~Falsy(req[r].cid)
              /\ CtxGet(ctx, r) = req[r].cid
        /\ \A i \in DOMAIN Log(r) :
              /\ Log(r)[i].correlation_id = req[r].cid
              /\ Log(r)[i].correlation_id # UnknownStr
        /\ Done(r) /\ HEADER_NAME \in HeaderNames(Answer(r)) =>
              \A i \in DOMAIN Log(r) : Log(r)[i].correlation_id = Answer(r).xcid

\* An answered request whose handler record and http_request record carry
\* the id of the response header, and an answered probe whose failed check
\* was logged under its id.
C17_Witness ==
    \E r, q \in Reqs :
        /\ Done(r) /\ HEADER_NAME \in HeaderNames(Answer(r))
        /\ Events(r, "http_request") # {}
        /\ Events(r, "example_updated") # {}
        /\ \A i \in DOMAIN Log(r) : Log(r)[i].correlation_id = Answer(r).xcid
        /\ Done(q) /\ Events(q, "database_health_check_failed") # {}
        /\ \A i \in DOMAIN Log(q) : Log(q)[i].correlation_id = Answer(q).xcid

\* C18 as stated: a request whose path does not start with /health has
\* exactly one http_request record once it is answered, and none before the
\* downstream has completed; a request whose path starts with /health never
\* has one.
C18_OneHttpRequestEvent ==
    \A r \in Reqs :
        /\ Cardinality(Events(r, "http_request")) <= 1
        /\ req[r].pc \in {"idle", "call_next", "await_db", "await_redis"} =>
              Events(r, "http_request") = {}
        /\ StartsWithHealth(req[r].path) => Events(r, "http_request") = {}
        /\ Done(r) /\ ~StartsWithHealth(req[r].path) =>
              Cardinality(Events(r, "http_request")) = 1

\* C21 as stated: with the cache configured, once the lifespan startup has
\* completed the Redis pool is initialised, so check_redis_health pings
\* instead of answering unhealthy "Redis pool not initialized".
C21_PoolInitialisedAfterStartup ==
    /\ started /\ cacheConfigured => redis_pool # "None"
    /\ \A r \in Reqs :
          "redis" \in DOMAIN req[r].components =>
              req[r].components["redis"].message # "Redis pool not initialized"
====
